---- MODULE Spec2Model ----
(***************************************************************************)
(* Model of the CT review tool's document core (core_functionality.py):    *)
(*   - extract_document_sections_from_docx (the Section Extractor),        *)
(*   - WordDocumentWithComments (the Comment Injector),                    *)
(*   - create_reviewed_document_with_proper_comments and                   *)
(*     create_simple_reviewed_copy (completion and the Fallback Annotator).*)
(* Strings are sequences of one-character strings, so that strip, lower,   *)
(* substring tests, rstrip and join are computed as Python computes them.  *)
(***************************************************************************)
EXTENDS Integers, Sequences, FiniteSets, TLC

VARIABLES
    \* ---- Section Extractor (extract_document_sections_from_docx) ----
    doc,                \* doc.paragraphs: sequence of [text, runs]
    epc,                \* "loop" | "done"
    idx,                \* 0-based index of the next paragraph of the main loop
    sections,           \* ordered mapping name -> body: sequence of [name, val]
    section_paragraphs, \* ordered mapping name -> paragraph objects (by index)
    paragraph_indices,  \* ordered mapping name -> paragraph indices
    current_section,    \* <<>> models None (and "", which the code treats alike)
    current_content,    \* list of stripped texts
    current_paragraphs, \* list of paragraph objects (by index)
    current_indices,    \* list of paragraph indices
    \* ---- completion: injector, caller and fallback ----
    docOpens,           \* input: Document(original_doc_path) succeeds
    pkg,                \* input: the parts python-docx writes for the original
    comments_data,      \* input: the caller's list of comment dicts
    pc,                 \* position of the completion operation
    now,                \* clock, in seconds (names the output path)
    comments,           \* self.comments
    comment_id,         \* self.comment_id
    ci,                 \* 1-based loop position in comments_data
    output_path,        \* the injector's output_path (a clock value), -1 before
    tempBound,          \* the local temp_docx of save_with_comments is assigned
    temp_docx,          \* file temp_<uuid>_temp.docx: "none"|"partial"|"complete"
    temp_dir,           \* directory temp_<uuid>: [exists, rels, ct, comments]
    files,              \* output files by path (clock value): [kind, ...]
    saveResult,         \* "pending" | "True" | "False" | "raised"
    injFailed,          \* history: the injection attempt failed
    fallbackRuns,       \* history: number of runs of create_simple_reviewed_copy
    fallbackAfter,      \* history: every fallback run started after a failure
    retval,             \* [kind |-> "pending" | "None" | "path", path |-> clock value]
    \* ---- two completions at once (different sessions) ----
    conc,               \* per invocation: [pc, doc_name, uuid, out, wrote, read]
    tnow,               \* clock, in seconds, of the two completions
    owner,              \* file system: path -> the invocation that wrote it last
    \* ---- app.py: the sessions table and its request handlers ----
    sessions,           \* sessions: session id -> [present, accepted_feedback]
    reqs,               \* per handler thread: the accept_feedback call it runs
    hist,               \* history: completed reviews, acknowledged appends
    \* ---- analyze_section_with_ai ----
    an                  \* one call: inputs, position, response, result

evars == << doc, epc, idx, sections, section_paragraphs, paragraph_indices,
            current_section, current_content, current_paragraphs,
            current_indices >>
cvars == << docOpens, pkg, comments_data, pc, now, comments, comment_id, ci,
            output_path, tempBound, temp_docx, temp_dir, files, saveResult,
            injFailed, fallbackRuns, fallbackAfter, retval >>
vars == << doc, epc, idx, sections, section_paragraphs, paragraph_indices,
           current_section, current_content, current_paragraphs,
           current_indices,
           docOpens, pkg, comments_data, pc, now, comments, comment_id, ci,
           output_path, tempBound, temp_docx, temp_dir, files, saveResult,
           injFailed, fallbackRuns, fallbackAfter, retval,
           conc, tnow, owner, sessions, reqs, hist, an >>
xvars == << conc, tnow, owner, sessions, reqs, hist, an >>

\* the variables of an operation that is not running
TwoIdle == conc = <<>> /\ tnow = 0 /\ owner = <<>>
AppIdle == sessions = <<>> /\ reqs = <<>> /\ hist = <<>>
AnalyzeIdle == an = <<>>

\* ------------------------------------------------------------ bounds
MaxBlocks == 3
MaxComments == 3
MaxTick == 1
DupBlocks == 4

\* ------------------------------------------------- Python str operations
UpperChars == <<"A", "B", "C", "D", "E", "F", "G", "H", "I", "J", "K", "L", "M", "N", "O", "P", "Q", "R", "S", "T", "U", "V", "W", "X", "Y", "Z">>
LowerChars == <<"a", "b", "c", "d", "e", "f", "g", "h", "i", "j", "k", "l", "m", "n", "o", "p", "q", "r", "s", "t", "u", "v", "w", "x", "y", "z">>

IsUpperChar(c) == \E i \in 1..26 : UpperChars[i] = c
IsLowerChar(c) == \E i \in 1..26 : LowerChars[i] = c
IsSpaceChar(c) == c \in {" ", "\t", "\n"}

\* str.lower(), one character
LowerChar(c) ==
    IF IsUpperChar(c) THEN LowerChars[CHOOSE i \in 1..26 : UpperChars[i] = c]
    ELSE c

\* str.lower()
Lower(s) == [i \in 1..Len(s) |-> LowerChar(s[i])]

\* str.strip(): drop leading and trailing whitespace
Strip(s) ==
    LET keep == {i \in 1..Len(s) : ~IsSpaceChar(s[i])}
    IN  IF keep = {} THEN <<>>
        ELSE LET lo == CHOOSE i \in keep : \A j \in keep : i <= j
                 hi == CHOOSE i \in keep : \A j \in keep : j <= i
             IN  SubSeq(s, lo, hi)

\* str.rstrip(':'): drop every trailing colon
RStripColon(s) ==
    LET keep == {i \in 1..Len(s) : s[i] /= ":"}
    IN  IF keep = {} THEN <<>>
        ELSE SubSeq(s, 1, CHOOSE i \in keep : \A j \in keep : j <= i)

\* str.endswith(':')
EndsWithColon(s) == Len(s) > 0 /\ s[Len(s)] = ":"

\* str.isupper(): at least one cased character and no lower-case one
IsUpper(s) ==
    /\ \E i \in 1..Len(s) : IsUpperChar(s[i])
    /\ \A i \in 1..Len(s) : ~IsLowerChar(s[i])

\* `needle in s`
Contains(s, needle) ==
    \E k \in 0..(Len(s) - Len(needle)) :
        \A j \in 1..Len(needle) : s[k + j] = needle[j]

\* '\n'.join(lines)
RECURSIVE Join(_)
Join(lines) ==
    IF Len(lines) = 0 THEN <<>>
    ELSE IF Len(lines) = 1 THEN lines[1]
    ELSE lines[1] \o <<"\n">> \o Join(Tail(lines))

\* --------------------------------------------------- program constants
STANDARD_SECTIONS ==
    << <<"E", "x", "e", "c", "u", "t", "i", "v", "e", " ", "S", "u", "m", "m", "a", "r", "y">>,
       <<"B", "a", "c", "k", "g", "r", "o", "u", "n", "d">>,
       <<"R", "e", "s", "o", "l", "v", "i", "n", "g", " ", "A", "c", "t", "i", "o", "n", "s">>,
       <<"R", "o", "o", "t", " ", "C", "a", "u", "s", "e">>,
       <<"P", "r", "e", "v", "e", "n", "t", "a", "t", "i", "v", "e", " ", "A", "c", "t", "i", "o", "n", "s">>,
       <<"I", "n", "v", "e", "s", "t", "i", "g", "a", "t", "i", "o", "n", " ", "P", "r", "o", "c", "e", "s", "s">>,
       <<"S", "e", "l", "l", "e", "r", " ", "C", "l", "a", "s", "s", "i", "f", "i", "c", "a", "t", "i", "o", "n">>,
       <<"D", "o", "c", "u", "m", "e", "n", "t", "a", "t", "i", "o", "n", " ", "a", "n", "d", " ", "R", "e", "p", "o", "r", "t", "i", "n", "g">>,
       <<"I", "m", "p", "a", "c", "t", " ", "A", "s", "s", "e", "s", "s", "m", "e", "n", "t">>,
       <<"T", "i", "m", "e", "l", "i", "n", "e">>,
       <<"R", "e", "c", "o", "m", "m", "e", "n", "d", "a", "t", "i", "o", "n", "s">> >>

EXCLUDED_SECTIONS ==
    << <<"O", "r", "i", "g", "i", "n", "a", "l", " ", "E", "m", "a", "i", "l">>,
       <<"E", "m", "a", "i", "l", " ", "C", "o", "r", "r", "e", "s", "p", "o", "n", "d", "e", "n", "c", "e">>,
       <<"R", "a", "w", " ", "D", "a", "t", "a">>,
       <<"L", "o", "g", "s">>,
       <<"A", "t", "t", "a", "c", "h", "m", "e", "n", "t", "s">> >>

\* the header length limit of `len(text) < 100`
HeaderMaxLen == 100

MainContent == <<"M", "a", "i", "n", " ", "C", "o", "n", "t", "e", "n", "t">>

\* =====================================================================
\* Section Extractor
\* =====================================================================

\* ordered mapping (a Python dict): a sequence of [name, val], names unique
Keys(m) == {m[i].name : i \in 1..Len(m)}
Get(m, k) == m[CHOOSE i \in 1..Len(m) : m[i].name = k].val
\* faulty variant: dict.setdefault(k, v), an existing key keeps its value
Put_KeepFirst(m, k, v) ==
    IF k \in Keys(m) THEN m ELSE Append(m, [name |-> k, val |-> v])

\* m[k] = v: an existing key keeps its position, a new key goes last
Put(m, k, v) ==
    IF k \in Keys(m)
    THEN [i \in 1..Len(m) |-> IF m[i].name = k THEN [name |-> k, val |-> v] ELSE m[i]]
    ELSE Append(m, [name |-> k, val |-> v])

\* faulty variant: `bold_runs >= total_runs / 2`
IsBold_AtLeastHalf(para) ==
    LET bold_runs == Cardinality({i \in 1..Len(para.runs) : para.runs[i]})
        total_runs == Len(para.runs)
    IN  total_runs > 0 /\ 2 * bold_runs >= total_runs

\* is_bold: strictly more than half of the runs are bold; False without runs
IsBold(para) ==
    LET bold_runs == Cardinality({i \in 1..Len(para.runs) : para.runs[i]})
        total_runs == Len(para.runs)
    IN  total_runs > 0 /\ 2 * bold_runs > total_runs

\* is_section_header of one paragraph
IsSectionHeader(para) ==
    LET text == Strip(para.text)
    IN  /\ IsBold(para)
        /\ Len(text) > 0
        /\ Len(text) < HeaderMaxLen
        /\ \/ \E s \in 1..Len(STANDARD_SECTIONS) :
                 Contains(Lower(text), Lower(STANDARD_SECTIONS[s]))
           \/ EndsWithColon(text)
           \/ IsUpper(text)

\* the exclusion loop over EXCLUDED_SECTIONS
IsExcluded(name) ==
    \E e \in 1..Len(EXCLUDED_SECTIONS) :
        Contains(Lower(name), Lower(EXCLUDED_SECTIONS[e]))

\* faulty variant: the section is stored without the test of current_content
StoresSection_NoContentCheck(name, content) ==
    Len(name) > 0 /\ ~IsExcluded(name)

\* `if current_section and current_content:` and `if not exclude:`
StoresSection(name, content) ==
    Len(name) > 0 /\ Len(content) > 0 /\ ~IsExcluded(name)

\* the paragraphs the model draws documents from
T_a == <<"a">>
T_b == <<" ", "b">>
T_blank == <<" ">>
T_BACKGROUND == <<"B", "A", "C", "K", "G", "R", "O", "U", "N", "D">>
T_BACKGROUNDc == <<"B", "A", "C", "K", "G", "R", "O", "U", "N", "D", ":">>
T_Logs == <<"L", "o", "g", "s", ":">>
T_Notes == <<"N", "o", "t", "e", "s", ":">>

Paragraphs ==
    { [text |-> <<>>,          runs |-> <<>>],
      [text |-> T_blank,       runs |-> <<FALSE>>],
      [text |-> T_a,           runs |-> <<FALSE>>],
      [text |-> T_b,           runs |-> <<TRUE, FALSE>>],
      [text |-> T_BACKGROUND,  runs |-> <<TRUE>>],
      [text |-> T_BACKGROUNDc, runs |-> <<TRUE, TRUE, FALSE>>],
      [text |-> T_Logs,        runs |-> <<TRUE>>],
      [text |-> T_Logs,        runs |-> <<TRUE, FALSE>>],
      [text |-> T_Notes,       runs |-> <<TRUE>>] }

Docs == UNION {[1..n -> Paragraphs] : n \in 0..MaxBlocks}

ExtractInit ==
    /\ doc \in Docs
    /\ epc = "loop"
    /\ idx = 0
    /\ sections = <<>>
    /\ section_paragraphs = <<>>
    /\ paragraph_indices = <<>>
    /\ current_section = <<>>
    /\ current_content = <<>>
    /\ current_paragraphs = <<>>
    /\ current_indices = <<>>

\* one iteration of `for idx, para in enumerate(doc.paragraphs)`
ExtractStep ==
    /\ epc = "loop"
    /\ idx < Len(doc)
    /\ LET para == doc[idx + 1]
           text == Strip(para.text)
       IN  IF IsSectionHeader(para)
           THEN /\ IF StoresSection(current_section, current_content)
                   THEN /\ sections' = Put(sections, current_section, Join(current_content))
                        /\ section_paragraphs' = Put(section_paragraphs, current_section, current_paragraphs)
                        /\ paragraph_indices' = Put(paragraph_indices, current_section, current_indices)
                   ELSE UNCHANGED << sections, section_paragraphs, paragraph_indices >>
                /\ current_section' = RStripColon(text)
                /\ current_content' = <<>>
                /\ current_paragraphs' = <<>>
                /\ current_indices' = <<>>
           ELSE /\ IF Len(text) > 0
                   THEN /\ current_content' = Append(current_content, text)
                        /\ current_paragraphs' = Append(current_paragraphs, idx)
                        /\ current_indices' = Append(current_indices, idx)
                   ELSE UNCHANGED << current_content, current_paragraphs, current_indices >>
                /\ UNCHANGED << current_section, sections, section_paragraphs, paragraph_indices >>
    /\ idx' = idx + 1
    /\ UNCHANGED << doc, epc >>
    /\ UNCHANGED cvars
    /\ UNCHANGED xvars

\* faulty variant: the fallback loop without `if para.text.strip():`
NonEmptyIndices_All(d) == [k \in 1..Len(d) |-> k - 1]

\* the indices of the paragraphs with non-empty stripped text (fallback loop)
NonEmptyIndices(d) ==
    LET S == {i \in 0..(Len(d) - 1) : Len(Strip(d[i + 1].text)) > 0}
        RECURSIVE Sorted(_)
        Sorted(T) == IF T = {} THEN <<>>
                     ELSE LET m == CHOOSE x \in T : \A y \in T : x <= y
                          IN  <<m>> \o Sorted(T \ {m})
    IN  Sorted(S)

\* `if not sections:` the "Main Content" fallback; all_text holds para.text
\* (not stripped)
FallbackSections(d) ==
    LET ix == NonEmptyIndices(d)
    IN  [text  |-> <<[name |-> MainContent, val |-> Join([k \in 1..Len(ix) |-> d[ix[k] + 1].text])]>>,
         paras |-> <<[name |-> MainContent, val |-> ix]>>,
         idxs  |-> <<[name |-> MainContent, val |-> ix]>>]

\* after the loop: close the last section, apply the fallback, return
ExtractFinish ==
    /\ epc = "loop"
    /\ idx = Len(doc)
    /\ LET store == StoresSection(current_section, current_content)
           s1 == IF store THEN Put(sections, current_section, Join(current_content)) ELSE sections
           p1 == IF store THEN Put(section_paragraphs, current_section, current_paragraphs) ELSE section_paragraphs
           i1 == IF store THEN Put(paragraph_indices, current_section, current_indices) ELSE paragraph_indices
           fb == FallbackSections(doc)
       IN  IF Len(s1) = 0
           THEN /\ sections' = fb.text
                /\ section_paragraphs' = fb.paras
                /\ paragraph_indices' = fb.idxs
           ELSE /\ sections' = s1
                /\ section_paragraphs' = p1
                /\ paragraph_indices' = i1
    /\ epc' = "done"
    /\ UNCHANGED << doc, idx, current_section, current_content,
                    current_paragraphs, current_indices >>
    /\ UNCHANGED cvars
    /\ UNCHANGED xvars

ExtractNext == ExtractStep \/ ExtractFinish


\* =====================================================================
\* Comment Injector, completion and Fallback Annotator
\* =====================================================================

CommentsXml == <<"c", "o", "m", "m", "e", "n", "t", "s", ".", "x", "m", "l">>
Tgt_styles == <<"s", "t", "y", "l", "e", "s", ".", "x", "m", "l">>
Tgt_link == <<"h", "t", "t", "p", ":", "/", "/", "h", "/", "c", "o", "m", "m", "e", "n", "t", "s", ".", "x", "m", "l">>
Pn_doc == <<"/", "w", "o", "r", "d", "/", "d", "o", "c", "u", "m", "e", "n", "t", ".", "x", "m", "l">>
Pn_styles == <<"/", "w", "o", "r", "d", "/", "s", "t", "y", "l", "e", "s", ".", "x", "m", "l">>
Pn_comments == <<"/", "w", "o", "r", "d", "/", "c", "o", "m", "m", "e", "n", "t", "s", ".", "x", "m", "l">>
T_ok == <<"o", "k">>
T_amp == <<"R", "&", "D">>

\* A part of the package: the file exists or not, and its entries in order.
\* A manifest entry is [kind, target]: target is the Target / PartName
\* attribute, the one place of the entry where 'comments.xml' can occur.
\* An entry of the comments part is a <w:comment> element [id, author, body].
Absent == [exists |-> FALSE, entries |-> <<>>]
Part(es) == [exists |-> TRUE, entries |-> es]

RelStyles == [kind |-> "styles", target |-> Tgt_styles]
RelLink == [kind |-> "hyperlink", target |-> Tgt_link]
\* new_rel of _update_document_relationships
RelComments == [kind |-> "comments", target |-> CommentsXml]
CtDoc == [kind |-> "document", target |-> Pn_doc]
CtStyles == [kind |-> "styles", target |-> Pn_styles]
\* new_type of _update_document_relationships
CtComments == [kind |-> "comments", target |-> Pn_comments]

\* the packages python-docx writes for structurally valid originals:
\* an ordinary one, one that already carries a comment, a minimal one whose
\* document part has no relationships (no document.xml.rels is written), and
\* one with a hyperlink to a URL that ends in comments.xml
PkgPlain ==
    [rels |-> Part(<<RelStyles>>), ct |-> Part(<<CtDoc, CtStyles>>), comments |-> Absent]
PkgCommented ==
    [rels |-> Part(<<RelStyles, RelComments>>),
     ct |-> Part(<<CtDoc, CtStyles, CtComments>>),
     comments |-> Part(<<[id |-> 0, author |-> "Reviewer", body |-> T_ok]>>)]
PkgNoRels ==
    [rels |-> Absent, ct |-> Part(<<CtDoc>>), comments |-> Absent]
PkgLink ==
    [rels |-> Part(<<RelStyles, RelLink>>), ct |-> Part(<<CtDoc, CtStyles>>), comments |-> Absent]
Packages == {PkgPlain, PkgCommented, PkgNoRels, PkgLink}

\* the scratch directory temp_<uuid>
NoDir == [exists |-> FALSE, rels |-> Absent, ct |-> Absent, comments |-> Absent]
DirOf(p) == [exists |-> TRUE, rels |-> p.rels, ct |-> p.ct, comments |-> p.comments]

\* a file at an output path
NoFile == [kind |-> "none", parts |-> NoDir, total |-> 0, groups |-> <<>>]
PartialFile == [kind |-> "partial", parts |-> NoDir, total |-> 0, groups |-> <<>>]
PackageFile(td) == [kind |-> "package", parts |-> td, total |-> 0, groups |-> <<>>]
SummaryFile(n, g) == [kind |-> "summary", parts |-> NoDir, total |-> n, groups |-> g]

\* the comment dicts the caller passes: keys are the keys present
AllKeys == {"paragraph_index", "comment", "author", "section", "type", "risk_level"}
CommentDicts ==
    { [keys |-> AllKeys, comment |-> T_ok, section |-> "Background"],
      [keys |-> AllKeys, comment |-> T_ok, section |-> "Root Cause"],
      [keys |-> AllKeys, comment |-> T_amp, section |-> "Background"],
      [keys |-> {"paragraph_index", "comment"}, comment |-> T_ok, section |-> ""],
      [keys |-> {"comment", "section", "type", "risk_level"}, comment |-> T_ok, section |-> "Background"] }
CommentLists == UNION {[1..n -> CommentDicts] : n \in 0..MaxComments}

CompletionInit ==
    /\ docOpens \in BOOLEAN
    /\ pkg \in (IF docOpens THEN Packages ELSE {PkgPlain})
    /\ comments_data \in CommentLists
    /\ pc = "c_new"
    /\ now = 0
    /\ comments = <<>>
    /\ comment_id = 0
    /\ ci = 1
    /\ output_path = -1
    /\ tempBound = FALSE
    /\ temp_docx = "none"
    /\ temp_dir = NoDir
    /\ files = [t \in 0..MaxTick |-> NoFile]
    /\ saveResult = "pending"
    /\ injFailed = FALSE
    /\ fallbackRuns = 0
    /\ fallbackAfter = TRUE
    /\ retval = [kind |-> "pending", path |-> -1]

\* the clock advances while the completion runs
Tick ==
    /\ pc /= "done"
    /\ now < MaxTick
    /\ now' = now + 1
    /\ UNCHANGED << docOpens, pkg, comments_data, pc, comments, comment_id, ci,
                    output_path, tempBound, temp_docx, temp_dir, files,
                    saveResult, injFailed, fallbackRuns, fallbackAfter, retval >>
    /\ UNCHANGED evars
    /\ UNCHANGED xvars

\* WordDocumentWithComments.__init__
Construct ==
    /\ pc = "c_new"
    /\ comments' = <<>>
    /\ comment_id' = 1
    /\ pc' = "c_add"
    /\ UNCHANGED << docOpens, pkg, comments_data, now, ci, output_path,
                    tempBound, temp_docx, temp_dir, files, saveResult,
                    injFailed, fallbackRuns, fallbackAfter, retval >>
    /\ UNCHANGED evars
    /\ UNCHANGED xvars

\* the author the caller passes: comment_data.get('author', 'AI Feedback')
AuthorOf(cd) == IF "author" \in cd.keys THEN "Reviewer" ELSE "AI Feedback"

\* add_comment: the dict appended to self.comments
NewComment(id, cd) == [id |-> id, author |-> AuthorOf(cd), text |-> cd.comment]

\* one iteration of `for comment_data in comments_data`; a missing
\* 'paragraph_index' or 'comment' raises KeyError into the caller's except
AddComment ==
    /\ pc = "c_add"
    /\ ci <= Len(comments_data)
    /\ LET cd == comments_data[ci]
       IN  IF {"paragraph_index", "comment"} \subseteq cd.keys
           THEN /\ comments' = Append(comments, NewComment(comment_id, cd))
                /\ comment_id' = comment_id + 1
                /\ ci' = ci + 1
                /\ UNCHANGED << pc, injFailed >>
           ELSE /\ pc' = "c_except"
                /\ injFailed' = TRUE
                /\ UNCHANGED << comments, comment_id, ci >>
    /\ UNCHANGED << docOpens, pkg, comments_data, now, output_path, tempBound,
                    temp_docx, temp_dir, files, saveResult, fallbackRuns,
                    fallbackAfter, retval >>
    /\ UNCHANGED evars
    /\ UNCHANGED xvars

\* output_path = f'reviewed_{doc_name}_{now}.docx'; save_with_comments is called
CallSave ==
    /\ pc = "c_add"
    /\ ci > Len(comments_data)
    /\ output_path' = now
    /\ pc' = "s_open"
    /\ UNCHANGED << docOpens, pkg, comments_data, now, comments, comment_id, ci,
                    tempBound, temp_docx, temp_dir, files, saveResult,
                    injFailed, fallbackRuns, fallbackAfter, retval >>
    /\ UNCHANGED evars
    /\ UNCHANGED xvars

\* ---- the except block of save_with_comments ----
\* `if os.path.exists(self.temp_dir): shutil.rmtree(self.temp_dir)`
DirAfterHandler(td) == IF td.exists THEN NoDir ELSE td
\* faulty variant: the handler leaves the intermediate archive behind
DocxAfterHandler_Leak(tdx) == tdx
\* `if os.path.exists(temp_docx): os.remove(temp_docx)`
DocxAfterHandler(tdx) == IF tdx /= "none" THEN "none" ELSE tdx
\* the handler reads the local temp_docx: unassigned, the read raises
\* UnboundLocalError out of the handler; otherwise it returns False
HandlerResult(bound) == IF bound THEN "False" ELSE "raised"

\* an exception inside the try block, with the scratch state it left behind
Fail(td, tdx, bound) ==
    /\ temp_dir' = DirAfterHandler(td)
    /\ temp_docx' = IF bound THEN DocxAfterHandler(tdx) ELSE tdx
    /\ saveResult' = HandlerResult(bound)
    /\ injFailed' = TRUE
    /\ pc' = IF HandlerResult(bound) = "False" THEN "c_ret" ELSE "c_except"

\* doc = Document(self.doc_path); temp_docx = f"{self.temp_dir}_temp.docx"
SaveOpen ==
    /\ pc = "s_open"
    /\ IF docOpens
       THEN /\ tempBound' = TRUE
            /\ pc' = "s_save"
            /\ UNCHANGED << temp_dir, temp_docx, saveResult, injFailed >>
       ELSE /\ tempBound' = FALSE
            /\ Fail(temp_dir, temp_docx, FALSE)
    /\ UNCHANGED << docOpens, pkg, comments_data, now, comments, comment_id, ci,
                    output_path, files, fallbackRuns, fallbackAfter, retval >>
    /\ UNCHANGED evars
    /\ UNCHANGED xvars

\* doc.save(temp_docx); a failed save may leave a partial file
SaveTempDocx ==
    /\ pc = "s_save"
    /\ \/ /\ temp_docx' = "complete"
          /\ pc' = "s_unpack"
          /\ UNCHANGED << temp_dir, saveResult, injFailed >>
       \/ \E left \in {"none", "partial"} : Fail(temp_dir, left, tempBound)
    /\ UNCHANGED << docOpens, pkg, comments_data, now, comments, comment_id, ci,
                    output_path, tempBound, files, fallbackRuns, fallbackAfter,
                    retval >>
    /\ UNCHANGED evars
    /\ UNCHANGED xvars

\* os.makedirs(self.temp_dir); zip_ref.extractall(self.temp_dir); a failure
\* leaves no directory (makedirs) or a partly filled one (extractall)
Unpack ==
    /\ pc = "s_unpack"
    /\ \/ /\ temp_dir' = DirOf(pkg)
          /\ pc' = "s_write"
          /\ UNCHANGED << temp_docx, saveResult, injFailed >>
       \/ \E left \in {NoDir, [NoDir EXCEPT !.exists = TRUE]} : Fail(left, temp_docx, tempBound)
    /\ UNCHANGED << docOpens, pkg, comments_data, now, comments, comment_id, ci,
                    output_path, tempBound, files, fallbackRuns, fallbackAfter,
                    retval >>
    /\ UNCHANGED evars
    /\ UNCHANGED xvars

\* _create_comment_xml: the text goes into <w:t>…</w:t> as it is, unescaped
CreateCommentXml(c) == [id |-> c.id, author |-> c.author, body |-> c.text]

\* comments_xml: the header, one element per entry of self.comments, the footer
CommentsXmlOf(cs) == [i \in 1..Len(cs) |-> CreateCommentXml(cs[i])]

\* the comments part written to comments_path, opened with mode 'w'
WrittenCommentsPart(old, cs) == Part(CommentsXmlOf(cs))

\* build comments_xml and write word/comments.xml
WriteCommentsPart ==
    /\ pc = "s_write"
    /\ \/ /\ temp_dir' = [temp_dir EXCEPT !.comments = WrittenCommentsPart(temp_dir.comments, comments)]
          /\ pc' = "s_patch"
          /\ UNCHANGED << temp_docx, saveResult, injFailed >>
       \/ Fail(temp_dir, temp_docx, tempBound)
    /\ UNCHANGED << docOpens, pkg, comments_data, now, comments, comment_id, ci,
                    output_path, tempBound, files, fallbackRuns, fallbackAfter,
                    retval >>
    /\ UNCHANGED evars
    /\ UNCHANGED xvars

\* `'comments.xml' not in content`, on the text of a manifest
MentionsCommentsXml(part) ==
    \E i \in 1..Len(part.entries) : Contains(part.entries[i].target, CommentsXml)

\* one manifest of _update_document_relationships: skipped when the file is
\* missing, patched when its text does not contain 'comments.xml'
PatchManifest(part, entry) ==
    IF part.exists /\ ~MentionsCommentsXml(part)
    THEN [part EXCEPT !.entries = Append(part.entries, entry)]
    ELSE part

\* _update_document_relationships
UpdateRelationshipsOf(td) ==
    [td EXCEPT !.rels = PatchManifest(td.rels, RelComments),
               !.ct = PatchManifest(td.ct, CtComments)]

UpdateDocumentRelationships ==
    /\ pc = "s_patch"
    /\ \/ /\ temp_dir' = UpdateRelationshipsOf(temp_dir)
          /\ pc' = "s_zip"
          /\ UNCHANGED << temp_docx, saveResult, injFailed >>
       \/ Fail(temp_dir, temp_docx, tempBound)
    /\ UNCHANGED << docOpens, pkg, comments_data, now, comments, comment_id, ci,
                    output_path, tempBound, files, fallbackRuns, fallbackAfter,
                    retval >>
    /\ UNCHANGED evars
    /\ UNCHANGED xvars

\* what a failed repack leaves at output_path: nothing when the archive could
\* not be opened for writing, a partial archive when a later write failed
\* (the except block does not touch output_path)
RepackLeftovers(old) == {old, PartialFile}

\* with zipfile.ZipFile(output_path, 'w') ...: every file of the scratch
\* directory goes into the archive
Repack ==
    /\ pc = "s_zip"
    /\ \/ /\ files' = [files EXCEPT ![output_path] = PackageFile(temp_dir)]
          /\ pc' = "s_clean"
          /\ UNCHANGED << temp_dir, temp_docx, saveResult, injFailed >>
       \/ /\ \E left \in RepackLeftovers(files[output_path]) :
                files' = [files EXCEPT ![output_path] = left]
          /\ Fail(temp_dir, temp_docx, tempBound)
    /\ UNCHANGED << docOpens, pkg, comments_data, now, comments, comment_id, ci,
                    output_path, tempBound, fallbackRuns, fallbackAfter, retval >>
    /\ UNCHANGED evars
    /\ UNCHANGED xvars

\* shutil.rmtree(self.temp_dir); os.remove(temp_docx); return True
SaveCleanup ==
    /\ pc = "s_clean"
    /\ temp_dir' = NoDir
    /\ temp_docx' = "none"
    /\ saveResult' = "True"
    /\ pc' = "c_ret"
    /\ UNCHANGED << docOpens, pkg, comments_data, now, comments, comment_id, ci,
                    output_path, tempBound, files, injFailed, fallbackRuns,
                    fallbackAfter, retval >>
    /\ UNCHANGED evars
    /\ UNCHANGED xvars

\* faulty variant: `if success is not None:`, True and False alike return the path
ReturnsInjected_NotNone(result) == result \in {"True", "False"}

\* `if success:` of create_reviewed_document_with_proper_comments
ReturnsInjected(result) == result = "True"

\* back in the caller with the result of save_with_comments
CallerReturn ==
    /\ pc = "c_ret"
    /\ IF ReturnsInjected(saveResult)
       THEN /\ retval' = [kind |-> "path", path |-> output_path]
            /\ pc' = "done"
       ELSE /\ pc' = "f_run"
            /\ UNCHANGED retval
    /\ UNCHANGED << docOpens, pkg, comments_data, now, comments, comment_id, ci,
                    output_path, tempBound, temp_docx, temp_dir, files,
                    saveResult, injFailed, fallbackRuns, fallbackAfter >>
    /\ UNCHANGED evars
    /\ UNCHANGED xvars

\* `except Exception as e:` of the caller: the fallback is called
CallerExcept ==
    /\ pc = "c_except"
    /\ pc' = "f_run"
    /\ UNCHANGED << docOpens, pkg, comments_data, now, comments, comment_id, ci,
                    output_path, tempBound, temp_docx, temp_dir, files,
                    saveResult, injFailed, fallbackRuns, fallbackAfter, retval >>
    /\ UNCHANGED evars
    /\ UNCHANGED xvars

\* faulty variant: itertools.groupby, a new group at every change of section
RECURSIVE GroupBySection_Consecutive(_, _)
GroupBySection_Consecutive(cds, acc) ==
    IF Len(cds) = 0 THEN acc
    ELSE LET s == cds[1].section
         IN  GroupBySection_Consecutive(Tail(cds),
                 IF Len(acc) > 0 /\ acc[Len(acc)].section = s
                 THEN [acc EXCEPT ![Len(acc)].bullets = @ + 1]
                 ELSE Append(acc, [section |-> s, bullets |-> 1]))

\* section_comments = defaultdict(list): the sections in order of first
\* occurrence, each with the number of its comments
RECURSIVE GroupBySection(_, _)
GroupBySection(cds, acc) ==
    IF Len(cds) = 0 THEN acc
    ELSE LET s == cds[1].section
         IN  GroupBySection(Tail(cds),
                 IF \E i \in 1..Len(acc) : acc[i].section = s
                 THEN [i \in 1..Len(acc) |->
                          IF acc[i].section = s
                          THEN [acc[i] EXCEPT !.bullets = @ + 1] ELSE acc[i]]
                 ELSE Append(acc, [section |-> s, bullets |-> 1]))

\* the keys create_simple_reviewed_copy subscripts
FallbackKeys == {"section", "type", "risk_level", "comment"}

\* create_simple_reviewed_copy reaches doc.save: the original opens and no
\* subscript raises KeyError
FallbackSaves(opens, cds) ==
    opens /\ \A i \in 1..Len(cds) : FallbackKeys \subseteq cds[i].keys

\* create_simple_reviewed_copy: every exception is caught and None returned
Fallback ==
    /\ pc = "f_run"
    /\ fallbackRuns' = fallbackRuns + 1
    /\ fallbackAfter' = (fallbackAfter /\ injFailed)
    /\ IF FallbackSaves(docOpens, comments_data)
       THEN /\ files' = [files EXCEPT ![now] =
                            SummaryFile(Len(comments_data), GroupBySection(comments_data, <<>>))]
            /\ retval' = [kind |-> "path", path |-> now]
       ELSE /\ retval' = [kind |-> "None", path |-> -1]
            /\ UNCHANGED files
    /\ pc' = "done"
    /\ UNCHANGED << docOpens, pkg, comments_data, now, comments, comment_id, ci,
                    output_path, tempBound, temp_docx, temp_dir, saveResult,
                    injFailed >>
    /\ UNCHANGED evars
    /\ UNCHANGED xvars

\* the extractor's variables while the completion runs
ExtractIdle ==
    /\ doc = <<>>
    /\ epc = "done"
    /\ idx = 0
    /\ sections = <<>>
    /\ section_paragraphs = <<>>
    /\ paragraph_indices = <<>>
    /\ current_section = <<>>
    /\ current_content = <<>>
    /\ current_paragraphs = <<>>
    /\ current_indices = <<>>

\* the completion's variables while the extractor runs
CompletionIdle ==
    /\ docOpens = TRUE
    /\ pkg = PkgPlain
    /\ comments_data = <<>>
    /\ pc = "done"
    /\ now = 0
    /\ comments = <<>>
    /\ comment_id = 0
    /\ ci = 1
    /\ output_path = -1
    /\ tempBound = FALSE
    /\ temp_docx = "none"
    /\ temp_dir = NoDir
    /\ files = [t \in 0..MaxTick |-> NoFile]
    /\ saveResult = "pending"
    /\ injFailed = FALSE
    /\ fallbackRuns = 0
    /\ fallbackAfter = TRUE
    /\ retval = [kind |-> "pending", path |-> -1]

\* ---- one completion (the specification of the injector claims) ----
Init == CompletionInit /\ ExtractIdle /\ TwoIdle /\ AppIdle /\ AnalyzeIdle

Next ==
    \/ Tick
    \/ Construct
    \/ AddComment
    \/ CallSave
    \/ SaveOpen
    \/ SaveTempDocx
    \/ Unpack
    \/ WriteCommentsPart
    \/ UpdateDocumentRelationships
    \/ Repack
    \/ SaveCleanup
    \/ CallerReturn
    \/ CallerExcept
    \/ Fallback

Spec == Init /\ [][Next]_vars

\* ---- one extraction (the specification of the extractor claims) ----
InitExtract == ExtractInit /\ CompletionIdle /\ TwoIdle /\ AppIdle /\ AnalyzeIdle

SpecExtract == InitExtract /\ [][ExtractNext]_vars


\* =====================================================================
\* Properties of the Comment Injector and of the completion
\* =====================================================================

\* save_with_comments has handed control back to its caller
SaveReturned == saveResult /= "pending" /\ pc \in {"c_ret", "c_except"}

\* the package at the injector's output path, right after a successful save
Injected == files[output_path].parts

\* reading a comments part back with an XML parser: a '<' or '&' inside a
\* text node makes the part ill-formed, and nothing can be read from it
WellFormedElement(e) == \A i \in 1..Len(e.body) : e.body[i] \notin {"<", "&"}
WellFormedPart(part) == \A i \in 1..Len(part.entries) : WellFormedElement(part.entries[i])
ParsedIds(part) == [i \in 1..Len(part.entries) |-> part.entries[i].id]

\* the number of entries of a manifest that are entries for the comments part
CommentsEntries(part) ==
    Cardinality({i \in 1..Len(part.entries) : part.entries[i].kind = "comments"})

\* C1: when word/_rels/document.xml.rels is absent from the unpacked package,
\* save_with_comments reports failure, and on return neither the scratch
\* directory nor the intermediate archive exists.
C1_MissingRelsReportsFailure ==
    (SaveReturned /\ docOpens /\ ~pkg.rels.exists)
        => /\ saveResult /= "True"
           /\ ~temp_dir.exists
           /\ temp_docx = "none"

\* C2: whenever save_with_comments has returned control to its caller (with
\* True, with False, or by an exception), the scratch directory temp_<uuid>
\* and the intermediate archive temp_<uuid>_temp.docx do not exist.
C2_NoScratchAfterReturn ==
    saveResult /= "pending" => (~temp_dir.exists /\ temp_docx = "none")

\* C2 witness: the repack failed after the scratch directory and the
\* intermediate archive had been created, and both are gone on return.
C2_Witness ==
    /\ SaveReturned
    /\ saveResult = "False"
    /\ files[output_path].kind = "partial"
    /\ ~temp_dir.exists
    /\ temp_docx = "none"

\* C3: injection is all-or-nothing: on a failure report no file exists at the
\* output path, and on success the output path holds a package.
C3_AllOrNothing ==
    SaveReturned =>
        /\ saveResult \in {"False", "raised"} => files[output_path].kind = "none"
        /\ saveResult = "True" => files[output_path].kind = "package"

\* C4: N add_comment calls and a successful save on a valid package (both
\* manifests present) give a comments part that reads back as exactly the
\* ids 1..N in order, and one comments entry in each manifest.
C4_RoundTrip ==
    (SaveReturned /\ saveResult = "True" /\ pkg.rels.exists /\ pkg.ct.exists)
        => /\ WellFormedPart(Injected.comments)
           /\ ParsedIds(Injected.comments) = [i \in 1..Len(comments_data) |-> i]
           /\ CommentsEntries(Injected.rels) = 1
           /\ CommentsEntries(Injected.ct) = 1

\* C5: when the input package has a comments part, every comment element of
\* it is in the comments part of the output, which is in ascending id order.
C5_ExistingPreserved ==
    (SaveReturned /\ saveResult = "True" /\ pkg.comments.exists)
        => /\ \A i \in 1..Len(pkg.comments.entries) :
                 \E j \in 1..Len(Injected.comments.entries) :
                     Injected.comments.entries[j] = pkg.comments.entries[i]
           /\ \A j, k \in 1..Len(Injected.comments.entries) :
                 j < k => Injected.comments.entries[j].id < Injected.comments.entries[k].id

\* C6: the fallback runs at most once, only after the injection attempt has
\* failed, never after save_with_comments returned True, and a finished
\* completion has run it exactly when the injection attempt failed.
C6_FallbackIffFailed ==
    /\ fallbackRuns <= 1
    /\ fallbackAfter
    /\ fallbackRuns = 1 => (injFailed /\ saveResult /= "True")
    /\ pc = "done" => (fallbackRuns = 1 <=> injFailed)
    /\ pc = "done" => (fallbackRuns = 0 <=> saveResult = "True")

\* C6 witness: a completion that finished through the fallback after
\* save_with_comments had returned False.
C6_Witness ==
    pc = "done" /\ saveResult = "False" /\ fallbackRuns = 1 /\ retval.kind = "path"

\* the comment lists the injector accepts: every entry has 'paragraph_index'
\* and 'comment'
InjectorAccepts(cds) ==
    \A i \in 1..Len(cds) : {"paragraph_index", "comment"} \subseteq cds[i].keys

\* C7: for a structurally valid original and a comment list the injector
\* accepts, the completion returns the path of a saved document, never None.
C7_AlwaysArtifact ==
    (pc = "done" /\ docOpens /\ InjectorAccepts(comments_data))
        => /\ retval.kind = "path"
           /\ files[retval.path].kind \in {"package", "summary"}

\* C8: no exception escapes save_with_comments.
C8_NeverRaises == saveResult /= "raised"

\* =====================================================================
\* Properties of the Section Extractor
\* =====================================================================

\* some section of the result has a non-empty body
SomeBody == \E i \in 1..Len(sections) : Len(sections[i].val) > 0

\* C9 (as claimed): every non-empty Block sequence yields a section with a
\* non-empty body.
C9_TotalityAnyBlocks ==
    (epc = "done" /\ Len(doc) > 0) => SomeBody

\* C9 (amended): every Block sequence with at least one Block whose stripped
\* text is non-empty yields a section with a non-empty body.
C9_TotalityNonBlank ==
    (epc = "done" /\ \E i \in 1..Len(doc) : Len(Strip(doc[i].text)) > 0) => SomeBody

\* C9 witness: a document of headers only, returned with a non-empty body.
C9_Witness ==
    /\ epc = "done"
    /\ Len(doc) > 1
    /\ \A i \in 1..Len(doc) : IsSectionHeader(doc[i])
    /\ SomeBody

\* the 0-based indices of the non-header Blocks with text that lie in a
\* section whose derived name is excluded
ExcludedContent(d) ==
    {i \in 0..(Len(d) - 1) :
        /\ ~IsSectionHeader(d[i + 1])
        /\ Len(Strip(d[i + 1].text)) > 0
        /\ \E h \in 0..(i - 1) :
              /\ IsSectionHeader(d[h + 1])
              /\ \A g \in (h + 1)..(i - 1) : ~IsSectionHeader(d[g + 1])
              /\ IsExcluded(RStripColon(Strip(d[h + 1].text)))}

\* C10: no excluded name is a key of the result, and no Block of an excluded
\* section is a member of any section of the result.
C10_ExcludedNeverAppears ==
    epc = "done" =>
        /\ \A i \in 1..Len(sections) : ~IsExcluded(sections[i].name)
        /\ \A i \in 1..Len(paragraph_indices) :
              \A k \in 1..Len(paragraph_indices[i].val) :
                  paragraph_indices[i].val[k] \notin ExcludedContent(doc)

\* =====================================================================
\* Header detection, one Block at a time
\* =====================================================================

\* a text of n characters c
Rep(c, n) == [i \in 1..n |-> c]

\* texts around every condition of the header test
HeaderTexts ==
    { <<>>,
      <<" ">>,
      <<"a">>,
      <<"1", "2">>,
      <<"N", "o", "t", "e", "s", ":">>,
      <<" ", "A", ":", " ">>,
      <<"B", "A", "C", "K", "G", "R", "O", "U", "N", "D">>,
      <<"M", "y", " ", "t", "i", "m", "e", "l", "i", "n", "e", " ", "x">>,
      Rep("A", HeaderMaxLen - 1),
      Rep("A", HeaderMaxLen) }

\* para.runs, by the bold flag of each run: none, all, none bold, exactly
\* half, more than half, less than half
RunShapes ==
    { <<>>, <<TRUE>>, <<FALSE>>, <<TRUE, FALSE>>, <<TRUE, TRUE, FALSE>>,
      <<TRUE, FALSE, FALSE>>, <<TRUE, TRUE, FALSE, FALSE>> }

HeaderDocs == {<<[text |-> t, runs |-> r]>> : t \in HeaderTexts, r \in RunShapes}

\* an extraction of a document of one Block
InitHeader ==
    /\ doc \in HeaderDocs
    /\ epc = "loop"
    /\ idx = 0
    /\ sections = <<>>
    /\ section_paragraphs = <<>>
    /\ paragraph_indices = <<>>
    /\ current_section = <<>>
    /\ current_content = <<>>
    /\ current_paragraphs = <<>>
    /\ current_indices = <<>>
    /\ CompletionIdle
    /\ TwoIdle /\ AppIdle /\ AnalyzeIdle

SpecHeader == InitHeader /\ [][ExtractNext]_vars

\* the header rule as the claim states it
ClaimedHeader(para) ==
    LET t == Strip(para.text)
        bold == Cardinality({i \in 1..Len(para.runs) : para.runs[i]})
    IN  /\ Len(t) > 0
        /\ Len(t) < 100
        /\ 2 * bold > Len(para.runs)
        /\ \/ \E s \in 1..Len(STANDARD_SECTIONS) : Contains(Lower(t), Lower(STANDARD_SECTIONS[s]))
           \/ t[Len(t)] = ":"
           \/ IsUpper(t)

\* the loop has just processed the only Block of the document
FirstBlockDone == epc = "loop" /\ idx = 1 /\ Len(doc) = 1

\* C11: the loop treats a Block as a section header (opens a section named
\* after it instead of appending its text) exactly when its stripped text is
\* non-empty and shorter than 100 characters, more than half of its runs are
\* bold, and the text contains a known section name, ends with a colon or is
\* upper-case; a Block with empty text opens no section.
C11_HeaderIff ==
    FirstBlockDone =>
        LET t == Strip(doc[1].text)
        IN  IF Len(t) = 0
            THEN current_section = <<>> /\ current_content = <<>>
            ELSE IF ClaimedHeader(doc[1])
                 THEN current_section = RStripColon(t) /\ current_content = <<>>
                 ELSE current_section = <<>> /\ current_content = <<t>>

\* C11 witness: a Block with two of three runs bold was taken as a header.
C11_Witness ==
    /\ FirstBlockDone
    /\ doc[1].runs = <<TRUE, TRUE, FALSE>>
    /\ Len(current_section) > 0
    /\ current_content = <<>>

\* =====================================================================
\* Extraction of documents long enough for a section name to occur twice
\* =====================================================================

DupParagraphs ==
    { [text |-> T_blank,       runs |-> <<FALSE>>],
      [text |-> T_a,           runs |-> <<FALSE>>],
      [text |-> T_b,           runs |-> <<TRUE, FALSE>>],
      [text |-> T_BACKGROUND,  runs |-> <<TRUE>>],
      [text |-> T_BACKGROUNDc, runs |-> <<TRUE, TRUE, FALSE>>],
      [text |-> T_Logs,        runs |-> <<TRUE>>] }

DupDocs == UNION {[1..n -> DupParagraphs] : n \in 0..DupBlocks}

InitDup ==
    /\ doc \in DupDocs
    /\ epc = "loop"
    /\ idx = 0
    /\ sections = <<>>
    /\ section_paragraphs = <<>>
    /\ paragraph_indices = <<>>
    /\ current_section = <<>>
    /\ current_content = <<>>
    /\ current_paragraphs = <<>>
    /\ current_indices = <<>>
    /\ CompletionIdle
    /\ TwoIdle /\ AppIdle /\ AnalyzeIdle

SpecDup == InitDup /\ [][ExtractNext]_vars

\* =====================================================================
\* Sections of a document, read off the Block sequence
\* =====================================================================

\* the 1-based positions of the confirmed headers of d
HeaderPositions(d) == {h \in 1..Len(d) : IsSectionHeader(d[h])}

\* the name derived from the header at position h
NameAt(d, h) == RStripColon(Strip(d[h].text))

\* the last position of the section that the header at h opens
SectionEnd(d, h) ==
    LET later == {g \in HeaderPositions(d) : g > h}
    IN  IF later = {} THEN Len(d)
        ELSE (CHOOSE g \in later : \A x \in later : g <= x) - 1

\* the stripped non-empty texts of the Blocks lo..hi, in order
RECURSIVE TextsBetween(_, _, _)
TextsBetween(d, lo, hi) ==
    IF lo > hi THEN <<>>
    ELSE (IF Len(Strip(d[lo].text)) > 0 THEN <<Strip(d[lo].text)>> ELSE <<>>)
             \o TextsBetween(d, lo + 1, hi)

\* the body texts of the section that the header at h opens
BodyAt(d, h) == TextsBetween(d, h + 1, SectionEnd(d, h))

UniqueNames == \A i, j \in 1..Len(sections) : sections[i].name = sections[j].name => i = j

SummarySaved ==
    pc = "done" /\ fallbackRuns = 1 /\ retval.kind = "path"

\* the saved summary
Summary == files[retval.path]

\* position of the first comment of section s in the comment list
FirstOf(s) == CHOOSE k \in 1..Len(comments_data) :
                  /\ comments_data[k].section = s
                  /\ \A j \in 1..(k - 1) : comments_data[j].section /= s

\* C13: the summary has one sub-heading per distinct section name, in the
\* order of first occurrence in the comment list, each with as many bullet
\* lines as the list has comments of that section, and the total it reports
\* is the number of comments.
C13_SummaryGroups ==
    SummarySaved =>
        /\ Summary.kind = "summary"
        /\ Summary.total = Len(comments_data)
        /\ {Summary.groups[i].section : i \in 1..Len(Summary.groups)}
              = {comments_data[k].section : k \in 1..Len(comments_data)}
        /\ \A i, j \in 1..Len(Summary.groups) :
              i < j => FirstOf(Summary.groups[i].section) < FirstOf(Summary.groups[j].section)
        /\ \A i \in 1..Len(Summary.groups) :
              Summary.groups[i].bullets =
                  Cardinality({k \in 1..Len(comments_data) :
                                  comments_data[k].section = Summary.groups[i].section})

\* C13 witness: comments for Background, Root Cause, Background give the
\* sub-headings Background (two bullets) and Root Cause (one bullet).
C13_Witness ==
    /\ SummarySaved
    /\ Len(comments_data) = 3
    /\ comments_data[1].section = "Background"
    /\ comments_data[2].section = "Root Cause"
    /\ comments_data[3].section = "Background"
    /\ Summary.groups = << [section |-> "Background", bullets |-> 2],
                           [section |-> "Root Cause", bullets |-> 1] >>

\* the position of the first confirmed header of d
FirstHeader(d) == CHOOSE h \in HeaderPositions(d) : \A g \in HeaderPositions(d) : h <= g

\* some header of d opens a section that the result stores
SomeStoredHeader(d) ==
    \E h \in HeaderPositions(d) :
        /\ Len(NameAt(d, h)) > 0
        /\ ~IsExcluded(NameAt(d, h))
        /\ Len(BodyAt(d, h)) > 0

\* C17: when some header yields a stored section, the non-empty non-header
\* Blocks before the first header are in the result under "Main Content".
C17_PreHeaderKept ==
    ( /\ epc = "done"
      /\ SomeStoredHeader(doc)
      /\ Len(TextsBetween(doc, 1, FirstHeader(doc) - 1)) > 0 )
    => /\ MainContent \in Keys(sections)
       /\ Get(sections, MainContent) = Join(TextsBetween(doc, 1, FirstHeader(doc) - 1))

\* the number of texts joined into a body (the texts hold no line break)
LineCount(body) ==
    IF Len(body) = 0 THEN 0
    ELSE 1 + Cardinality({i \in 1..Len(body) : body[i] = "\n"})

\* C19: the three mappings returned have the same keys, and for every name
\* the index list is strictly increasing, as long as the paragraph list and
\* as the number of texts joined into the body, and holds only indices of
\* Blocks with non-empty stripped text.
C19_MappingsAgree ==
    epc = "done" =>
        /\ Keys(sections) = Keys(section_paragraphs)
        /\ Keys(sections) = Keys(paragraph_indices)
        /\ Len(sections) = Len(section_paragraphs)
        /\ Len(sections) = Len(paragraph_indices)
        /\ \A n \in Keys(paragraph_indices) :
              LET ix == Get(paragraph_indices, n)
              IN  /\ \A j, k \in 1..Len(ix) : j < k => ix[j] < ix[k]
                  /\ Len(ix) = Len(Get(section_paragraphs, n))
                  /\ Len(ix) = LineCount(Get(sections, n))
                  /\ \A k \in 1..Len(ix) :
                        /\ ix[k] \in 0..(Len(doc) - 1)
                        /\ Len(Strip(doc[ix[k] + 1].text)) > 0

\* C19 witness: a section stored on the header path whose members are the
\* Blocks 1 and 3, the blank Block 2 between them left out.
C19_Witness ==
    /\ epc = "done"
    /\ \E i \in 1..Len(paragraph_indices) :
          /\ paragraph_indices[i].name /= MainContent
          /\ paragraph_indices[i].val = <<1, 3>>
          /\ section_paragraphs[i].val = <<1, 3>>

\* ============================================================
\* Two completions at once, for different sessions.
\* create_reviewed_document_with_proper_comments called by two request
\* handlers of one server process (one working directory); each step of
\* one call may interleave with the steps of the other.  Only the paths
\* are modelled here: the contents are the subject of Spec.
\* ============================================================

Procs == {1, 2}

\* doc_name of a session (the caller passes the document's name)
DocNames == {"r", "s"}

\* values uuid.uuid4() can return; a call never returns one already taken
Uuids == 1 .. 3

\* a path: the scratch directory temp_<uuid>, the intermediate archive
\* temp_<uuid>_temp.docx, the output package
\* reviewed_<doc_name>_<second>.docx, the session's own input document
TempDir(u) == [kind |-> "temp_dir", name |-> "temp", n |-> u]
TempDocx(u) == [kind |-> "temp_docx", name |-> "temp", n |-> u]
OutputPath(d, t) == [kind |-> "output", name |-> d, n |-> t]
OriginalPath(p) == [kind |-> "original", name |-> "doc", n |-> p]

NoPath == [kind |-> "none", name |-> "", n |-> 0]

\* the file system after p writes the paths ps / after the paths go away
Written(p, ps) == [x \in ps |-> p] @@ owner
Removed(ps) == [x \in (DOMAIN owner) \ ps |-> owner[x]]

TwoInit ==
    /\ conc \in [Procs -> [pc : {"t_new"}, doc_name : DocNames, uuid : {0},
                           out : {NoPath}, wrote : {{}}, read : {{}},
                           ret : {NoPath}]]
    /\ tnow = 0
    /\ owner = <<>>

\* datetime.now() moves on between any two steps
TwoTick ==
    /\ tnow < MaxTick
    /\ tnow' = tnow + 1
    /\ UNCHANGED << conc, owner >>
    /\ UNCHANGED << sessions, reqs, hist, an >>
    /\ UNCHANGED evars
    /\ UNCHANGED cvars

\* WordDocumentWithComments(original_doc_path): a fresh uuid4
TwoConstruct(p) ==
    /\ conc[p].pc = "t_new"
    /\ \E u \in Uuids \ {conc[q].uuid : q \in Procs} :
          conc' = [conc EXCEPT ![p].uuid = u, ![p].pc = "t_path"]
    /\ UNCHANGED << tnow, owner >>
    /\ UNCHANGED << sessions, reqs, hist, an >>
    /\ UNCHANGED evars
    /\ UNCHANGED cvars

\* output_path = f'reviewed_{doc_name}_{now:%Y%m%d_%H%M%S}.docx'
TwoCallSave(p) ==
    /\ conc[p].pc = "t_path"
    /\ conc' = [conc EXCEPT ![p].out = OutputPath(conc[p].doc_name, tnow),
                            ![p].pc = "t_temp"]
    /\ UNCHANGED << tnow, owner >>
    /\ UNCHANGED << sessions, reqs, hist, an >>
    /\ UNCHANGED evars
    /\ UNCHANGED cvars

\* the except block of save_with_comments: both scratch paths are removed
\* if they exist, and the caller goes on to the fallback annotator
TwoHandler(p, c, fs) ==
    LET scratch == {TempDir(c.uuid), TempDocx(c.uuid)} \cap DOMAIN fs
    IN /\ conc' = [conc EXCEPT ![p] = [c EXCEPT !.wrote = @ \cup scratch,
                                                !.pc = "t_fb"]]
       /\ owner' = [x \in (DOMAIN fs) \ scratch |-> fs[x]]

\* Document(self.doc_path); doc.save(temp_docx)
TwoSaveTempDocx(p) ==
    /\ conc[p].pc = "t_temp"
    /\ LET c == [conc[p] EXCEPT !.read = @ \cup {OriginalPath(p)}]
           w == [c EXCEPT !.wrote = @ \cup {TempDocx(c.uuid)}]
       IN \/ /\ conc' = [conc EXCEPT ![p] = [w EXCEPT !.pc = "t_unpack"]]
             /\ owner' = Written(p, {TempDocx(c.uuid)})
          \/ TwoHandler(p, c, owner)
          \/ TwoHandler(p, w, Written(p, {TempDocx(c.uuid)}))
    /\ UNCHANGED tnow
    /\ UNCHANGED << sessions, reqs, hist, an >>
    /\ UNCHANGED evars
    /\ UNCHANGED cvars

\* os.makedirs(temp_dir); extractall; comments.xml and the manifests are
\* written inside the scratch directory
TwoUnpack(p) ==
    /\ conc[p].pc = "t_unpack"
    /\ LET c == [conc[p] EXCEPT !.read = @ \cup {TempDocx(conc[p].uuid)},
                                !.wrote = @ \cup {TempDir(conc[p].uuid)}]
           fs == Written(p, {TempDir(c.uuid)})
       IN \/ /\ conc' = [conc EXCEPT ![p] = [c EXCEPT !.pc = "t_zip"]]
             /\ owner' = fs
          \/ TwoHandler(p, c, fs)
    /\ UNCHANGED tnow
    /\ UNCHANGED << sessions, reqs, hist, an >>
    /\ UNCHANGED evars
    /\ UNCHANGED cvars

\* zipfile.ZipFile(output_path, 'w'): the output package is created (an
\* existing file of that name is truncated) from the scratch directory
TwoRepack(p) ==
    /\ conc[p].pc = "t_zip"
    /\ LET c == [conc[p] EXCEPT !.read = @ \cup {TempDir(conc[p].uuid)},
                                !.wrote = @ \cup {conc[p].out}]
           fs == Written(p, {c.out})
       IN \/ /\ conc' = [conc EXCEPT ![p] = [c EXCEPT !.pc = "t_clean"]]
             /\ owner' = fs
          \/ TwoHandler(p, c, fs)
    /\ UNCHANGED tnow
    /\ UNCHANGED << sessions, reqs, hist, an >>
    /\ UNCHANGED evars
    /\ UNCHANGED cvars

\* shutil.rmtree(temp_dir); os.remove(temp_docx); return True, and the
\* caller returns output_path
TwoCleanup(p) ==
    /\ conc[p].pc = "t_clean"
    /\ LET scratch == {TempDir(conc[p].uuid), TempDocx(conc[p].uuid)}
       IN /\ conc' = [conc EXCEPT ![p].wrote = @ \cup scratch,
                                  ![p].ret = conc[p].out,
                                  ![p].pc = "t_done"]
          /\ owner' = Removed(scratch)
    /\ UNCHANGED tnow
    /\ UNCHANGED << sessions, reqs, hist, an >>
    /\ UNCHANGED evars
    /\ UNCHANGED cvars

\* create_simple_reviewed_copy: its own output_path from the clock, the
\* input document read again, doc.save(output_path); None on any error
TwoFallback(p) ==
    /\ conc[p].pc = "t_fb"
    /\ LET o == OutputPath(conc[p].doc_name, tnow)
           c == [conc[p] EXCEPT !.out = o, !.pc = "t_done",
                                !.read = @ \cup {OriginalPath(p)}]
           w == [c EXCEPT !.wrote = @ \cup {o}]
       IN \/ /\ conc' = [conc EXCEPT ![p] = [w EXCEPT !.ret = o]]
             /\ owner' = Written(p, {o})
          \/ /\ conc' = [conc EXCEPT ![p] = c]
             /\ owner' = owner
          \/ /\ conc' = [conc EXCEPT ![p] = w]
             /\ owner' = Written(p, {o})
    /\ UNCHANGED tnow
    /\ UNCHANGED << sessions, reqs, hist, an >>
    /\ UNCHANGED evars
    /\ UNCHANGED cvars

TwoNext ==
    \/ TwoTick
    \/ \E p \in Procs : TwoConstruct(p)
    \/ \E p \in Procs : TwoCallSave(p)
    \/ \E p \in Procs : TwoSaveTempDocx(p)
    \/ \E p \in Procs : TwoUnpack(p)
    \/ \E p \in Procs : TwoRepack(p)
    \/ \E p \in Procs : TwoCleanup(p)
    \/ \E p \in Procs : TwoFallback(p)

InitTwo == TwoInit /\ ExtractIdle /\ CompletionIdle /\ AppIdle /\ AnalyzeIdle

SpecTwo == InitTwo /\ [][TwoNext]_vars

\* the paths one invocation has written or removed, and those it has used
TouchedBy(p) == conc[p].wrote
UsedBy(p) == conc[p].wrote \cup conc[p].read

\* C14: two completions running at once for different sessions do not
\* interfere: no path written or removed by one invocation is written,
\* read or removed by the other, under every interleaving, also when both
\* documents have the same name and both start within the same second.
C14_NoSharedPath ==
    \A p \in Procs : \A q \in Procs \ {p} :
        TouchedBy(p) \cap UsedBy(q) = {}

\* ============================================================
\* app.py: the process-wide sessions table and the request handlers
\* that use it.  The server runs each request in its own thread, so the
\* statements of two accept_feedback calls may interleave.
\* ============================================================

\* values of str(uuid.uuid4()) in upload_file
SessionIds == 1 .. 2

\* section_name values of accept_feedback requests
SectionNames == {"A", "B"}

\* request handler threads
Threads == {1, 2}

\* number of accept_feedback requests that are let in
MaxAccepts == 2

IdleReq == [pc |-> "idle", session_id |-> 0, section_name |-> "", item |-> 0]

AppInit ==
    /\ sessions = <<>>
    /\ reqs = [t \in Threads |-> IdleReq]
    /\ hist = [issued |-> 0, acked |-> {}, completed |-> {},
               foundAfter |-> {}]

\* a request for session_id sid that passes `session_id not in sessions`
\* after the session's review was completed
Found(sid) ==
    IF sid \in hist.completed /\ sid \in DOMAIN sessions
    THEN hist.foundAfter \cup {sid}
    ELSE hist.foundAfter

\* upload_file: a new session under a fresh id, or an error response
UploadFile ==
    /\ \/ \E sid \in SessionIds \ DOMAIN sessions :
             sessions' = (sid :> [filename |-> "r.docx",
                                  accepted_feedback |-> <<>>]) @@ sessions
       \/ sessions' = sessions
    /\ UNCHANGED << reqs, hist >>
    /\ UNCHANGED << conc, tnow, owner, an >>
    /\ UNCHANGED evars
    /\ UNCHANGED cvars

\* analyze_section: looks the session up, changes nothing in the table
AnalyzeSection ==
    /\ \E sid \in SessionIds :
          hist' = [hist EXCEPT !.foundAfter = Found(sid)]
    /\ UNCHANGED << sessions, reqs >>
    /\ UNCHANGED << conc, tnow, owner, an >>
    /\ UNCHANGED evars
    /\ UNCHANGED cvars

\* accept_feedback, up to `session = sessions[session_id]`: 404 when the
\* session is unknown
AcceptBegin(t) ==
    /\ reqs[t].pc = "idle"
    /\ hist.issued < MaxAccepts
    /\ \E sid \in SessionIds : \E sec \in SectionNames :
          /\ hist' = [hist EXCEPT !.issued = @ + 1,
                                  !.foundAfter = Found(sid)]
          /\ IF sid \in DOMAIN sessions
             THEN reqs' = [reqs EXCEPT ![t] =
                      [pc |-> "test", session_id |-> sid,
                       section_name |-> sec, item |-> hist.issued + 1]]
             ELSE reqs' = reqs
    /\ UNCHANGED sessions
    /\ UNCHANGED << conc, tnow, owner, an >>
    /\ UNCHANGED evars
    /\ UNCHANGED cvars

\* if section_name not in session['accepted_feedback']:
AcceptTest(t) ==
    /\ reqs[t].pc = "test"
    /\ LET r == reqs[t]
           af == sessions[r.session_id].accepted_feedback
       IN reqs' = [reqs EXCEPT ![t].pc =
              IF r.section_name \in DOMAIN af THEN "append" ELSE "create"]
    /\ UNCHANGED << sessions, hist >>
    /\ UNCHANGED << conc, tnow, owner, an >>
    /\ UNCHANGED evars
    /\ UNCHANGED cvars

\* session['accepted_feedback'][section_name] = []
AcceptCreate(t) ==
    /\ reqs[t].pc = "create"
    /\ LET r == reqs[t]
           af == sessions[r.session_id].accepted_feedback
       IN sessions' = [sessions EXCEPT ![r.session_id].accepted_feedback =
              (r.section_name :> <<>>) @@ af]
    /\ reqs' = [reqs EXCEPT ![t].pc = "append"]
    /\ UNCHANGED hist
    /\ UNCHANGED << conc, tnow, owner, an >>
    /\ UNCHANGED evars
    /\ UNCHANGED cvars

\* session['accepted_feedback'][section_name].append(feedback_item) and
\* the response
AcceptAppend(t) ==
    /\ reqs[t].pc = "append"
    /\ LET r == reqs[t]
       IN /\ sessions' = [sessions EXCEPT
                 ![r.session_id].accepted_feedback[r.section_name] =
                     Append(@, r.item)]
          /\ hist' = [hist EXCEPT !.acked = @ \cup
                 {[session_id |-> r.session_id,
                   section_name |-> r.section_name, item |-> r.item]}]
    /\ reqs' = [reqs EXCEPT ![t] = IdleReq]
    /\ UNCHANGED << conc, tnow, owner, an >>
    /\ UNCHANGED evars
    /\ UNCHANGED cvars

\* complete_review: 404 for an unknown session; else the summary document
\* is built and saved (200) or an exception is answered with 500.  The
\* sessions table is not written to.
CompleteReview ==
    /\ \E sid \in SessionIds :
          IF sid \in DOMAIN sessions
          THEN \/ hist' = [hist EXCEPT !.foundAfter = Found(sid),
                                       !.completed = @ \cup {sid}]
               \/ hist' = [hist EXCEPT !.foundAfter = Found(sid)]
          ELSE hist' = hist
    /\ UNCHANGED << sessions, reqs >>
    /\ UNCHANGED << conc, tnow, owner, an >>
    /\ UNCHANGED evars
    /\ UNCHANGED cvars

AppNext ==
    \/ UploadFile
    \/ AnalyzeSection
    \/ CompleteReview
    \/ \E t \in Threads : AcceptBegin(t)
    \/ \E t \in Threads : AcceptTest(t)
    \/ \E t \in Threads : AcceptCreate(t)
    \/ \E t \in Threads : AcceptAppend(t)

InitApp == AppInit /\ ExtractIdle /\ CompletionIdle /\ TwoIdle /\ AnalyzeIdle

SpecApp == InitApp /\ [][AppNext]_vars

\* C15: once complete_review has produced the output document for a
\* session id, that id is no longer in the sessions table (later
\* analyze, accept and complete requests for it find no session).
C15_CompletedSessionGone ==
    \A sid \in hist.completed :
        sid \notin DOMAIN sessions /\ sid \notin hist.foundAfter

\* the entries of a section's list, as the table holds it now
ListOf(sid, sec) ==
    IF sid \in DOMAIN sessions
       /\ sec \in DOMAIN sessions[sid].accepted_feedback
    THEN sessions[sid].accepted_feedback[sec]
    ELSE <<>>

\* the entries whose accept_feedback call has completed
AckedFor(sid, sec) ==
    {e.item : e \in {a \in hist.acked :
                        a.session_id = sid /\ a.section_name = sec}}

InFlight(sid, sec) ==
    \E t \in Threads : /\ reqs[t].pc /= "idle"
                       /\ reqs[t].session_id = sid
                       /\ reqs[t].section_name = sec

\* C18: under every interleaving of accept_feedback calls on a session
\* (membership test, creation of the empty list and append being separate
\* steps) an appended entry is never removed or replaced, and after k
\* completed calls for a section its list holds exactly those k entries.
C18_AppendOnly ==
    \A sid \in SessionIds : \A sec \in SectionNames :
        /\ \A x \in AckedFor(sid, sec) :
               \E i \in 1 .. Len(ListOf(sid, sec)) : ListOf(sid, sec)[i] = x
        /\ ~ InFlight(sid, sec) =>
               Len(ListOf(sid, sec)) = Cardinality(AckedFor(sid, sec))

\* ============================================================
\* analyze_section_with_ai and invoke_aws_semantic_search: one call,
\* against a model service that may be unavailable or answer anything.
\* ============================================================

\* a JSON value as far as the code looks at it: its type, whether
\* 'feedback_items' is absent, a list or null, and the items of the list
\* (each a dict with some keys, or not a dict)
JsonValue(ty, fi, items) == [type |-> ty, fi |-> fi, items |-> items]

\* json.loads raised
Invalid == JsonValue("invalid", "absent", <<>>)

ItemPlain == [isdict |-> TRUE, keys |-> {"id", "type", "category", "description"}]
ItemFull == [isdict |-> TRUE,
             keys |-> {"id", "type", "category", "description",
                       "hawkeye_refs", "risk_level"}]
ItemString == [isdict |-> FALSE, keys |-> {}]

\* a response text: what json.loads makes of it, whether the pattern
\* \{.*\} matches in it and what json.loads makes of the match
Text(direct, match, inner) ==
    [direct |-> direct, match |-> match, inner |-> inner]

R_json == Text(JsonValue("dict", "list", <<ItemPlain, ItemFull>>), TRUE,
               JsonValue("dict", "list", <<ItemPlain, ItemFull>>))
R_embedded == Text(Invalid, TRUE, JsonValue("dict", "list", <<ItemPlain>>))
R_prose == Text(Invalid, FALSE, Invalid)
R_braces == Text(Invalid, TRUE, Invalid)
R_list == Text(JsonValue("list", "absent", <<>>), FALSE, Invalid)
R_nokey == Text(JsonValue("dict", "absent", <<>>), TRUE,
                JsonValue("dict", "absent", <<>>))
R_null == Text(JsonValue("dict", "null", <<>>), TRUE,
               JsonValue("dict", "null", <<>>))
R_strings == Text(JsonValue("dict", "list", <<ItemPlain, ItemString>>), TRUE,
                  JsonValue("dict", "list", <<ItemPlain, ItemString>>))

Responses == {R_json, R_embedded, R_prose, R_braces, R_list, R_nokey,
              R_null, R_strings}

\* the JSON string the except block of invoke_aws_semantic_search returns
MockJson == Text(JsonValue("dict", "list", <<ItemPlain>>), TRUE,
                 JsonValue("dict", "list", <<ItemPlain>>))

\* section_name: "Timeline", "Chat Logs"
AnalyzedNames ==
    { <<"T", "i", "m", "e", "l", "i", "n", "e">>,
      <<"C", "h", "a", "t", " ", "L", "o", "g", "s">> }

\* f"Hawkeye Analysis: {section_name}"
OperationName(section_name) ==
    <<"H", "a", "w", "k", "e", "y", "e", " ", "A", "n", "a", "l", "y",
      "s", "i", "s", ":", " ">> \o section_name

\* the string returned when invoke_model or the reading of its body
\* raised: a sentence of prose for a chat operation, else the mock JSON
MockResponse(operation_name) ==
    IF Contains(Lower(operation_name), <<"c", "h", "a", "t">>)
    THEN R_prose
    ELSE MockJson

\* lines 497-507: json.loads, else the first {...} match, else no items
ParseResponse(r) ==
    IF r.direct /= Invalid THEN r.direct
    ELSE IF r.match /\ r.inner /= Invalid THEN r.inner
    ELSE JsonValue("dict", "list", <<>>)

\* lines 509-515 raise for a result that is not a dict, for
\* 'feedback_items': null and for an item that is not a dict
EnrichRaises(v) ==
    \/ v.type /= "dict"
    \/ v.fi = "null"
    \/ v.fi = "list" /\ \E i \in 1 .. Len(v.items) : ~ v.items[i].isdict

\* lines 509-515: every item gets hawkeye_refs and risk_level
Enrich(v) ==
    [v EXCEPT !.items =
        [i \in 1 .. Len(v.items) |->
            [v.items[i] EXCEPT !.keys = @ \cup {"hawkeye_refs", "risk_level"}]]]

\* what an earlier, successful call left in ai_feedback_cache
CachedResult == Enrich(JsonValue("dict", "list", <<ItemPlain>>))

NoResult == JsonValue("none", "absent", <<>>)
NoText == Text(NoResult, FALSE, NoResult)

AnalyzeInit ==
    an \in [pc : {"a_cache"},
            section_name : AnalyzedNames,
            cached : BOOLEAN,         \* cache_key in ai_feedback_cache
            guidelines : BOOLEAN,     \* both globals are not None
            files : BOOLEAN,          \* the guideline documents exist
            client : {"ok", "fails"}, \* boto3.client(...)
            call : {"ok", "raises"},  \* invoke_model and reading its body
            text : Responses,         \* the model's answer when it answers
            response : {NoText},
            result : {NoResult},
            raised : {FALSE}]

\* lines 460-462: a cached result is returned as it is
AnCacheLookup ==
    /\ an.pc = "a_cache"
    /\ an' = IF an.cached
             THEN [an EXCEPT !.result = CachedResult, !.pc = "a_done"]
             ELSE [an EXCEPT !.pc = "a_guidelines"]
    /\ UNCHANGED << conc, tnow, owner, sessions, reqs, hist >>
    /\ UNCHANGED evars
    /\ UNCHANGED cvars

\* lines 400-401: load_guidelines catches its own errors and leaves the
\* globals None when the documents are missing
AnLoadGuidelines ==
    /\ an.pc = "a_guidelines"
    /\ an' = [an EXCEPT !.guidelines = IF @ THEN @ ELSE an.files,
                        !.pc = "a_client"]
    /\ UNCHANGED << conc, tnow, owner, sessions, reqs, hist >>
    /\ UNCHANGED evars
    /\ UNCHANGED cvars

\* line 413: boto3.client('bedrock-runtime') stands before the try block,
\* so its exception leaves both functions
AnCreateClient ==
    /\ an.pc = "a_client"
    /\ an' = IF an.client = "fails"
             THEN [an EXCEPT !.raised = TRUE, !.pc = "a_done"]
             ELSE [an EXCEPT !.pc = "a_invoke"]
    /\ UNCHANGED << conc, tnow, owner, sessions, reqs, hist >>
    /\ UNCHANGED evars
    /\ UNCHANGED cvars

\* lines 422-455: the model's text, or the mock string of the except block
AnInvokeModel ==
    /\ an.pc = "a_invoke"
    /\ an' = [an EXCEPT !.response =
                 IF an.call = "ok" THEN an.text
                 ELSE MockResponse(OperationName(an.section_name)),
                        !.pc = "a_parse"]
    /\ UNCHANGED << conc, tnow, owner, sessions, reqs, hist >>
    /\ UNCHANGED evars
    /\ UNCHANGED cvars

\* lines 497-507
AnParse ==
    /\ an.pc = "a_parse"
    /\ an' = [an EXCEPT !.result = ParseResponse(an.response),
                        !.pc = "a_enrich"]
    /\ UNCHANGED << conc, tnow, owner, sessions, reqs, hist >>
    /\ UNCHANGED evars
    /\ UNCHANGED cvars

\* lines 509-518: the loop over result.get('feedback_items', []), the
\* cache entry and the return
AnEnrich ==
    /\ an.pc = "a_enrich"
    /\ an' = IF EnrichRaises(an.result)
             THEN [an EXCEPT !.raised = TRUE, !.pc = "a_done"]
             ELSE [an EXCEPT !.result = Enrich(@), !.cached = TRUE,
                             !.pc = "a_done"]
    /\ UNCHANGED << conc, tnow, owner, sessions, reqs, hist >>
    /\ UNCHANGED evars
    /\ UNCHANGED cvars

AnalyzeNext ==
    \/ AnCacheLookup
    \/ AnLoadGuidelines
    \/ AnCreateClient
    \/ AnInvokeModel
    \/ AnParse
    \/ AnEnrich

InitAnalyze == AnalyzeInit /\ ExtractIdle /\ CompletionIdle /\ TwoIdle /\ AppIdle

SpecAnalyze == InitAnalyze /\ [][AnalyzeNext]_vars

\* the capability was called and did not deliver a feedback object of the
\* requested shape
CapabilityFailed ==
    /\ an.pc = "a_done"
    /\ an.response /= NoText \/ an.raised
    /\ \/ an.client = "fails"
       \/ an.call = "raises"
       \/ an.text.direct = Invalid
       \/ EnrichRaises(an.text.direct)
       \/ an.text.direct.fi /= "list"

\* C16: whatever way the feedback generation fails (client creation, the
\* model call, a response that is not JSON or JSON of another shape),
\* analyze_section_with_ai does not raise and returns a result that
\* carries a feedback item list.
C16_FailureYieldsItems ==
    CapabilityFailed =>
        /\ ~ an.raised
        /\ an.result.type = "dict"
        /\ an.result.fi = "list"

====
